---- MODULE Spec2Model ----
(***************************************************************************)
(* Dental practice server: the appointment and service route handlers of   *)
(* src/src/routes/appointments.js and src/unnamed/part_002 (services,      *)
(* payments, reminders), the patient-info handlers of src/unnamed/part_001 *)
(* and the overview of src/src/routes/dashboard.js, over the document      *)
(* collections they read and write.                                        *)
(*                                                                         *)
(* A handler is a pair of operators over the request (actor, path id,      *)
(* body) and the current collections: the HTTP response it sends, and the  *)
(* collection after its save/remove.  The handler's action applies the     *)
(* second; a request that is refused leaves every collection as it was.    *)
(***************************************************************************)
EXTENDS Integers, FiniteSets, Sequences, TLC

VARIABLES
    appts,      \* Appointment collection: _id -> document, or NoDoc
    nextAppt,   \* the next fresh Appointment _id (ObjectIds are never reused)
    services,   \* Service collection: _id -> document, or NoDoc
    nextSvc,    \* the next fresh Service _id
    payments,   \* Payment collection: _id -> document, or NoDoc
    nextPay,    \* the next fresh Payment _id
    reminders,  \* Reminder collection: _id -> document, or NoDoc
    nextRem,    \* the next fresh Reminder _id
    infos,      \* PatientInfo collection: _id -> document, or NoDoc
    nextInfo,   \* the next fresh PatientInfo _id
    now,        \* the server's clock, as Date.now() reads it
    pending,    \* the requests in flight, between their load and their save
    users       \* User collection: _id -> document, or NoDoc

vars == <<appts, nextAppt, services, nextSvc, payments, nextPay,
          reminders, nextRem, infos, nextInfo, now, pending, users>>

apptVars == <<appts, nextAppt>>
svcVars == <<services, nextSvc>>
payVars == <<payments, nextPay>>
remVars == <<reminders, nextRem>>
infoVars == <<infos, nextInfo, now, pending>>

----------------------------------------------------------------------------
(* Bounds of the model *)

MaxAppts == 1
MaxServices == 2

ApptIds == 1..MaxAppts
ServiceIds == 1..MaxServices

\* a string field that a document does not carry (undefined in JavaScript)
None == "none"
\* a slot of a collection that holds no document (findById gives null)
NoDoc == [absent |-> TRUE]

----------------------------------------------------------------------------
(* Actors: req.user as set by the auth middleware *)

Users == {"p1", "p2", "d1", "a1"}

Role(u) ==
    CASE u \in {"p1", "p2"} -> "patient"
      [] u = "d1" -> "doctor"
      [] OTHER -> "assistant"

\* ['doctor', 'assistant'].includes(req.user.role)
StaffRoles == {"doctor", "assistant"}

\* authorize(...roles): passes the request on iff the actor's role is listed
Authorize(roles, actor) == Role(actor) \in roles

----------------------------------------------------------------------------
(* Dates: an instant is the local civil minute of a week that starts on    *)
(* Sunday 00:00, so that getDay and getHours are computed from it.         *)

MinutesPerDay == 24 * 60

At(day, hour, minute) == day * MinutesPerDay + hour * 60 + minute

\* Date.prototype.getDay(): 0 = Sunday ... 6 = Saturday
getDay(t) == (t \div MinutesPerDay) % 7
\* Date.prototype.getHours()
getHours(t) == (t % MinutesPerDay) \div 60

WorkingDays == {6, 0, 1, 2, 3}
OpenHour == 8
CloseHour == 18

\* [6, 0, 1, 2, 3].includes(dayOfWeek)
DayOk(t) == getDay(t) \in WorkingDays

\* the check with the closing hour itself taken as open (hour > 18)
HourMutant(t) == ~(getHours(t) < OpenHour \/ getHours(t) > CloseHour)
\* !(hour < 8 || hour >= 18)
HourOk(t) == ~(getHours(t) < OpenHour \/ getHours(t) >= CloseHour)

SatEarly == At(6, 7, 59)
SatOpen == At(6, 8, 0)
WedLast == At(3, 17, 59)
WedClosed == At(3, 18, 0)
ThuTen == At(4, 10, 0)

\* every day and hour of the week, at the first and the last minute of the hour
GridDates == {At(d, h, m) : d \in 0..6, h \in 0..23, m \in {0, 59}}

----------------------------------------------------------------------------
(* Appointment documents and request bodies *)

Statuses == {"scheduled", "completed", "cancelled"}
Notes == {"n1"}
\* the user ids that request bodies name
BodyUsers == {"p1", "d1"}
Doctors == {"d1"}

\* A request body is a record of the fields it carries.
Has(body, f) == f \in DOMAIN body

\* requests that carry every field the validator requires
FullBodies ==
    [user : BodyUsers, doctor : Doctors, service : ServiceIds,
     date : {SatOpen, ThuTen}]
    \cup
    [user : {"p1"}, doctor : Doctors, service : {1}, date : {WedLast}]
    \cup
    [user : {"p1"}, doctor : Doctors, service : {1}, date : {SatOpen, ThuTen},
     status : Statuses \cup {"bogus"}]

\* requests that leave fields out: only notes, only a status, no user, no date
PartialBodies ==
    [notes : Notes]
    \cup [status : {"completed"}]
    \cup [doctor : Doctors, service : {1}, date : {SatOpen}]
    \cup [user : {"p1"}, doctor : Doctors, service : {1}]

ApptBodies == FullBodies \cup PartialBodies

\* one well-formed request per date of the grid
HourBodies ==
    [user : {"p1"}, doctor : Doctors, service : {1}, date : GridDates]

\* validateAppointment: validationResult(req).isEmpty()
validateAppointment(body) ==
    /\ Has(body, "user")
    /\ Has(body, "doctor")
    /\ Has(body, "date")
    /\ Has(body, "service")
    /\ Has(body, "status") => body.status \in Statuses

\* the handler without the override
ForceMutant(actor, body) == body
\* if (req.user.role === 'patient') req.body.user = req.user._id
ForceOwnUser(actor, body) ==
    IF Role(actor) = "patient" THEN [body EXCEPT !.user = actor] ELSE body

\* the check without the isActive test
AvailableMutant(sid) == services[sid] # NoDoc
\* Service.findById(id): !(!service || !service.isActive)
ServiceAvailable(sid) ==
    /\ services[sid] # NoDoc
    /\ services[sid].isActive

\* new Appointment(req.body): the schema's defaults fill the absent fields
NewAppointment(body) ==
    [user |-> body.user, doctor |-> body.doctor, service |-> body.service,
     date |-> body.date,
     status |-> IF Has(body, "status") THEN body.status ELSE "scheduled",
     notes |-> IF Has(body, "notes") THEN body.notes ELSE None]

\* Object.assign(appointment, req.body): the fields the body carries
Assign(doc, body) ==
    [f \in DOMAIN doc |-> IF Has(body, f) THEN body[f] ELSE doc[f]]

Reply(code, why) == [code |-> code, why |-> why]

\* router.post('/'): the response
PostAppointment(actor, body) ==
    IF ~validateAppointment(body) THEN Reply(400, "validation")
    ELSE IF ~ServiceAvailable(ForceOwnUser(actor, body).service)
        THEN Reply(400, "service")
    ELSE IF ~DayOk(body.date) THEN Reply(400, "day")
    ELSE IF ~HourOk(body.date) THEN Reply(400, "hour")
    ELSE Reply(201, "created")

\* router.post('/'): the document that appointment.save() stores
PostedAppointment(actor, body) == NewAppointment(ForceOwnUser(actor, body))

\* a handler that saves before its working-day check
SavedMutant(r) == r.code \in {200, 201} \/ r.why = "day"
\* the replies that a handler sends after its await appointment.save(); every
\* other reply is a return that comes before the save
Saved(r) == r.code \in {200, 201}

\* router.post('/'): the collection after the handler
PostAppointmentStore(actor, body) ==
    IF Saved(PostAppointment(actor, body))
    THEN [appts EXCEPT ![nextAppt] = PostedAppointment(actor, body)]
    ELSE appts

\* every actor taken for the owner
OwnerMutant(doc, actor) == TRUE
\* appointment.user.toString() === req.user._id.toString()
IsOwner(doc, actor) == doc.user = actor

\* the handler without the status rule
StatusRuleMutant(actor, body, doc) == FALSE
\* isPatient && req.body.status && req.body.status !== appointment.status
PatientChangesStatus(actor, body, doc) ==
    /\ Role(actor) = "patient"
    /\ Has(body, "status")
    /\ body.status # doc.status

\* req.body.service && req.body.service !== appointment.service.toString()
ServiceChanged(body, doc) ==
    /\ Has(body, "service")
    /\ body.service # doc.service

\* the handler without the date check
DateSuppliedMutant(body) == FALSE
\* if (req.body.date)
DateSupplied(body) == Has(body, "date")

\* router.put('/:id'): the response
PutAppointment(actor, id, body) ==
    IF ~validateAppointment(body) THEN Reply(400, "validation")
    ELSE IF appts[id] = NoDoc THEN Reply(404, "notfound")
    ELSE IF ~(Role(actor) \in StaffRoles) /\ ~IsOwner(appts[id], actor)
        THEN Reply(403, "owner")
    ELSE IF PatientChangesStatus(actor, body, appts[id])
        THEN Reply(403, "status")
    ELSE IF ServiceChanged(body, appts[id]) /\ ~ServiceAvailable(body.service)
        THEN Reply(400, "service")
    ELSE IF DateSupplied(body) /\ ~DayOk(body.date) THEN Reply(400, "day")
    ELSE IF DateSupplied(body) /\ ~HourOk(body.date) THEN Reply(400, "hour")
    ELSE Reply(200, "updated")

\* router.put('/:id'): the collection after the handler
PutAppointmentStore(actor, id, body) ==
    IF Saved(PutAppointment(actor, id, body))
    THEN [appts EXCEPT ![id] = Assign(appts[id], body)]
    ELSE appts

\* the check restricted to patients
CancelMutant(doc, actor) == doc.user = actor /\ Role(actor) = "patient"
\* !(appointment.user.toString() !== req.user._id.toString())
MayCancel(doc, actor) == doc.user = actor

\* router.delete('/:id'): the response
DeleteAppointment(actor, id) ==
    IF appts[id] = NoDoc THEN Reply(404, "notfound")
    ELSE IF ~MayCancel(appts[id], actor) THEN Reply(403, "owner")
    ELSE Reply(200, "cancelled")

\* router.delete('/:id'): the collection after the handler
DeleteAppointmentStore(actor, id) ==
    IF DeleteAppointment(actor, id).code = 200
    THEN [appts EXCEPT ![id] = NoDoc]
    ELSE appts

\* !(req.user.role === 'patient' && appointment.user._id !== req.user._id)
MayView(doc, actor) == ~(Role(actor) = "patient" /\ doc.user # actor)

\* router.get('/:id'): the response
GetAppointment(actor, id) ==
    IF appts[id] = NoDoc THEN Reply(404, "notfound")
    ELSE IF ~MayView(appts[id], actor) THEN Reply(403, "owner")
    ELSE Reply(200, "found")

\* the empty query for every actor
QueryMutant(actor, doc) == TRUE
\* query = {} for staff, { user: req.user._id } for a patient
ListQuery(actor, doc) == Role(actor) = "patient" => doc.user = actor

\* router.get('/'): the _ids of Appointment.find(query)
ListAppointments(actor) ==
    {id \in ApptIds : appts[id] # NoDoc /\ ListQuery(actor, appts[id])}

----------------------------------------------------------------------------
(* Services.  A Service document is kept as its name and its isActive     *)
(* flag, the two fields a handler reads back; description, duration,      *)
(* price and createdBy are written and never read by a handler.           *)

Names == {"Cleaning", "Whitening"}

\* the isActive of a Service that was saved without one
DefaultIsActive == TRUE

ServiceBodies ==
    [name : Names, duration : {30}, price : {50}]
    \cup [name : Names, duration : {30}, price : {0}]
    \cup [name : Names, duration : {30}]
    \cup [duration : {30}, price : {50}]

EditBodies ==
    [name : Names]
    \cup [isActive : BOOLEAN]
    \cup [name : Names, isActive : BOOLEAN]
    \cup [price : {0}]

\* a field that is falsy in JavaScript: undefined, or the number 0
Falsy(body, f) == ~Has(body, f) \/ body[f] = 0

\* authorize('doctor', 'assistant')
CreateRolesMutant == {"doctor", "assistant"}
\* router.post('/create', auth, authorize('doctor'), ...)
CreateServiceRoles == {"doctor"}

\* router.put('/edit-service/:id', auth, authorize('doctor'), ...)
EditServiceRoles == {"doctor"}

\* router.delete('/delete-service/:id', auth, authorize('doctor'), ...)
DeleteServiceRoles == {"doctor"}

\* a lookup that finds nothing
FindNameMutant(name) == {}
\* Service.findOne({ name }): the _ids of the documents with that name
FindByName(name) ==
    {sid \in ServiceIds : services[sid] # NoDoc /\ services[sid].name = name}

\* router.post('/create'): the response
PostService(actor, body) ==
    IF ~Authorize(CreateServiceRoles, actor) THEN Reply(403, "role")
    ELSE IF ~Has(body, "name") \/ Falsy(body, "duration") \/ Falsy(body, "price")
        THEN Reply(400, "required")
    ELSE IF FindByName(body.name) # {} THEN Reply(400, "exists")
    ELSE Reply(201, "created")

\* router.post('/create'): new Service({...}) as saved
PostedService(body) == [name |-> body.name, isActive |-> DefaultIsActive]

\* name && name !== service.name
Renames(body, doc) == Has(body, "name") /\ body.name # doc.name

\* router.put('/edit-service/:id'): the response
PutService(actor, sid, body) ==
    IF ~Authorize(EditServiceRoles, actor) THEN Reply(403, "role")
    ELSE IF services[sid] = NoDoc THEN Reply(404, "notfound")
    ELSE IF Renames(body, services[sid]) /\ FindByName(body.name) # {}
        THEN Reply(400, "exists")
    ELSE Reply(200, "updated")

\* router.put('/edit-service/:id'): the fields the handler assigns
EditedService(doc, body) ==
    [name |-> IF Has(body, "name") THEN body.name ELSE doc.name,
     isActive |-> IF Has(body, "isActive") THEN body.isActive ELSE doc.isActive]

\* router.put('/edit-service/:id'): the collection after the handler
PutServiceStore(actor, sid, body) ==
    IF PutService(actor, sid, body).code = 200
    THEN [services EXCEPT ![sid] = EditedService(services[sid], body)]
    ELSE services

\* router.delete('/delete-service/:id'): the response
DeleteService(actor, sid) ==
    IF ~Authorize(DeleteServiceRoles, actor) THEN Reply(403, "role")
    ELSE IF services[sid] = NoDoc THEN Reply(404, "notfound")
    ELSE Reply(200, "deleted")

\* router.delete('/delete-service/:id'): the collection after the handler
DeleteServiceStore(actor, sid) ==
    IF DeleteService(actor, sid).code = 200
    THEN [services EXCEPT ![sid] = NoDoc]
    ELSE services

----------------------------------------------------------------------------
(* Payments.  A Payment document keeps its user, appointment, amount,      *)
(* status and paymentMethod; createdAt is written once and only sorts the  *)
(* listings.                                                               *)

MaxPays == 2
PayIds == 1..MaxPays

PaymentStatuses == {"pending", "completed", "failed"}
Amounts == {0, 20, 50}

\* requests to create a payment: well-formed ones, then one without a user,
\* one without an appointment and one with a negative amount
PayBodies ==
    [user : BodyUsers, appointment : {1}, amount : Amounts]
    \cup [user : {"p1"}, appointment : {1}, amount : {50},
          status : PaymentStatuses \cup {"bogus"}]
    \cup [user : {"p1"}, appointment : {1}, amount : {50},
          paymentMethod : {"cash"}]
    \cup [appointment : {1}, amount : {50}]
    \cup [user : {"p1"}, amount : {50}]
    \cup [user : {"p1"}, appointment : {1}, amount : {-5}]

\* requests to update a payment's status: a status alone, no status at all,
\* and a status sent along with other fields of the document
PayStatusBodies ==
    [status : PaymentStatuses \cup {"bogus"}]
    \cup [amount : {20}]
    \cup [status : {"completed"}, amount : {20}, user : {"d1"}]

\* validatePayment: validationResult(req).isEmpty()
validatePayment(body) ==
    /\ Has(body, "user")
    /\ Has(body, "appointment")
    /\ Has(body, "amount") /\ body.amount >= 0
    /\ Has(body, "status") => body.status \in PaymentStatuses

\* the handler without the override
PayForceMutant(actor, body) == body
\* if (req.user.role === 'patient') req.body.user = req.user._id
PayForceOwnUser(actor, body) ==
    IF Role(actor) = "patient" THEN [body EXCEPT !.user = actor] ELSE body

\* new Payment(req.body): the schema's defaults fill the absent fields
NewPayment(body) ==
    [user |-> body.user, appointment |-> body.appointment,
     amount |-> body.amount,
     status |-> IF Has(body, "status") THEN body.status ELSE "pending",
     paymentMethod |->
        IF Has(body, "paymentMethod") THEN body.paymentMethod ELSE None]

\* router.post('/') of payments: the response
PostPayment(actor, body) ==
    IF ~validatePayment(body) THEN Reply(400, "validation")
    ELSE Reply(201, "created")

\* router.post('/') of payments: the document that payment.save() stores
PostedPayment(actor, body) == NewPayment(PayForceOwnUser(actor, body))

\* router.post('/') of payments: the collection after the handler
PostPaymentStore(actor, body) ==
    IF PostPayment(actor, body).code = 201
    THEN [payments EXCEPT ![nextPay] = PostedPayment(actor, body)]
    ELSE payments

\* router.put('/:id', auth, authorize('doctor', 'assistant'), ...)
UpdatePaymentRoles == {"doctor", "assistant"}

\* every status that is sent taken for a valid one
StatusMutant(body) == Has(body, "status")
\* !(!status || !['pending', 'completed', 'failed'].includes(status))
StatusAccepted(body) ==
    /\ Has(body, "status")
    /\ body.status \in PaymentStatuses

\* router.put('/:id') of payments: the response
PutPayment(actor, id, body) ==
    IF ~Authorize(UpdatePaymentRoles, actor) THEN Reply(403, "role")
    ELSE IF ~StatusAccepted(body) THEN Reply(400, "status")
    ELSE IF payments[id] = NoDoc THEN Reply(404, "notfound")
    ELSE Reply(200, "updated")

\* router.put('/:id') of payments: the collection after the handler
PutPaymentStore(actor, id, body) ==
    IF PutPayment(actor, id, body).code = 200
    THEN [payments EXCEPT ![id] = [@ EXCEPT !.status = body.status]]
    ELSE payments

\* ['doctor', /*'assistant'*/].includes(req.user.role)
ListPaymentRoles == {"doctor"}

\* !(req.user._id.toString() !== req.params.userId && !staff)
MayListPayments(actor, userId) ==
    ~(actor # userId /\ ~(Role(actor) \in ListPaymentRoles))

\* router.get('/user/:userId') of payments: the response
GetUserPayments(actor, userId) ==
    IF ~MayListPayments(actor, userId) THEN Reply(403, "owner")
    ELSE Reply(200, "found")

\* Payment.find({ user: req.params.userId }): the _ids found
FindUserPayments(userId) ==
    {id \in PayIds : payments[id] # NoDoc /\ payments[id].user = userId}

----------------------------------------------------------------------------
(* The dashboard overview *)

\* router.get('/overview', auth, authorize('doctor', 'assistant'), ...)
OverviewRoles == {"doctor", "assistant"}

\* a stage that matches every payment
MatchMutant == {id \in PayIds : payments[id] # NoDoc}
\* { $match: { status: 'completed' } }
MatchCompleted ==
    {id \in PayIds : payments[id] # NoDoc /\ payments[id].status = "completed"}

\* $sum: '$amount' over the documents of a group
RECURSIVE SumAmount(_)
SumAmount(ids) ==
    IF ids = {} THEN 0
    ELSE LET id == CHOOSE i \in ids : TRUE
         IN payments[id].amount + SumAmount(ids \ {id})

\* { $group: { _id: null, total: ... } }: one group when a document matched,
\* and no group at all when none did
Aggregate ==
    IF MatchCompleted = {} THEN <<>>
    ELSE <<[total |-> SumAmount(MatchCompleted)]>>

\* totalRevenue[0]?.total || 0
TotalRevenue ==
    IF Len(Aggregate) = 0 THEN 0
    ELSE IF Aggregate[1].total = 0 THEN 0
    ELSE Aggregate[1].total

\* router.get('/overview'): the response
GetOverview(actor) ==
    IF ~Authorize(OverviewRoles, actor) THEN Reply(403, "role")
    ELSE Reply(200, "overview")

----------------------------------------------------------------------------
(* Reminders.  A Reminder document keeps its user, appointment, title and  *)
(* isRead flag; message and date are written once and never read by a      *)
(* handler.                                                                *)

MaxRems == 2
RemIds == 1..MaxRems

RemUsers == {"p1", "p2", "d1"}
Titles == {"t1", "t2"}

\* the isRead of a Reminder that was saved without one
DefaultIsRead == FALSE

\* requests to create a reminder: well-formed ones, one that sends isRead,
\* and one without a title
RemBodies ==
    [user : RemUsers, appointment : {1}, title : Titles, message : {"m1"},
     date : {SatOpen}]
    \cup [user : {"p1"}, appointment : {1}, title : {"t1"}, message : {"m1"},
          date : {SatOpen}, isRead : BOOLEAN]
    \cup [user : {"p1"}, appointment : {1}, message : {"m1"}, date : {SatOpen}]

\* validateReminder: validationResult(req).isEmpty()
validateReminder(body) ==
    /\ Has(body, "user")
    /\ Has(body, "appointment")
    /\ Has(body, "title")
    /\ Has(body, "message")
    /\ Has(body, "date")

\* router.post('/', auth, authorize('doctor', 'assistant'), ...)
CreateReminderRoles == {"doctor", "assistant"}

\* new Reminder(req.body)
NewReminder(body) ==
    [user |-> body.user, appointment |-> body.appointment,
     title |-> body.title,
     isRead |-> IF Has(body, "isRead") THEN body.isRead ELSE DefaultIsRead]

\* router.post('/') of reminders: the response
PostReminder(actor, body) ==
    IF ~Authorize(CreateReminderRoles, actor) THEN Reply(403, "role")
    ELSE IF ~validateReminder(body) THEN Reply(400, "validation")
    ELSE Reply(201, "created")

\* the check with the staff let through
MarkReadMutant(doc, actor) ==
    doc.user = actor \/ Role(actor) \in {"doctor", "assistant"}
\* !(reminder.user.toString() !== req.user._id.toString())
MayMarkRead(doc, actor) == doc.user = actor

\* router.put('/:id/read'): the response
PutRead(actor, id) ==
    IF reminders[id] = NoDoc THEN Reply(404, "notfound")
    ELSE IF ~MayMarkRead(reminders[id], actor) THEN Reply(403, "owner")
    ELSE Reply(200, "read")

\* router.put('/:id/read'): the collection after the handler
PutReadStore(actor, id) ==
    IF PutRead(actor, id).code = 200
    THEN [reminders EXCEPT ![id] = [@ EXCEPT !.isRead = TRUE]]
    ELSE reminders

\* !(reminder.user !== req.user._id && !['doctor', 'assistant'].includes(role))
MayDeleteReminder(doc, actor) ==
    ~(doc.user # actor /\ ~(Role(actor) \in {"doctor", "assistant"}))

\* router.delete('/:id') of reminders: the response
DeleteReminder(actor, id) ==
    IF reminders[id] = NoDoc THEN Reply(404, "notfound")
    ELSE IF ~MayDeleteReminder(reminders[id], actor) THEN Reply(403, "owner")
    ELSE Reply(200, "deleted")

\* router.delete('/:id') of reminders: the collection after the handler
DeleteReminderStore(actor, id) ==
    IF DeleteReminder(actor, id).code = 200
    THEN [reminders EXCEPT ![id] = NoDoc]
    ELSE reminders

----------------------------------------------------------------------------
(* PatientInfo.  Of the eight fields that a request may set, the model     *)
(* keeps gender, which the schema validates against an enum, and address,  *)
(* which it does not; the others are handled as address is.  createdAt is  *)
(* written once by the schema's default and never again.                   *)

MaxInfos == 2
MaxNow == 2
MaxProcs == 2

InfoIds == 1..MaxInfos
Procs == 1..MaxProcs

\* lastVisit: { default: null }
NullDate == 0
\* findOne(...) that finds no document
NoId == 0
\* a request slot that holds no request
Idle == [kind |-> "idle"]

\* the patients whose records the model stores
InfoPatients == {"p1", "p2"}
\* req.params.patientId
InfoPaths == {"p1", "p2", "me"}

GenderEnum == {"male", "female", "other"}

\* requests to create a record: for oneself, for a named patient, with a
\* gender outside the enum, with a lastVisit of the caller's
InfoBodies ==
    [gender : {"male"}]
    \cup [address : {"a1"}]
    \cup [patientId : InfoPatients, gender : {"male"}, address : {"a1"}]
    \cup [gender : {"bogus"}]
    \cup [patientId : {"p1"}, lastVisit : {99}]

\* requests to update a record
InfoPatches ==
    [gender : {"male"}]
    \cup [address : {"a1"}]
    \cup [gender : {"female"}, address : {"a1"}]
    \cup [gender : {"bogus"}]
    \cup [updateLastVisit : BOOLEAN]
    \cup [lastVisit : {99}]
    \cup [address : {"a1"}, updateLastVisit : {TRUE}, lastVisit : {99}]

\* const targetPatientId = patientId || req.user._id
CreateTarget(actor, body) ==
    IF Has(body, "patientId") THEN body.patientId ELSE actor

\* const targetPatientId = patientId === 'me' ? req.user._id : patientId
UpdateTarget(actor, path) == IF path = "me" THEN actor ELSE path

\* !(req.user._id !== targetPatientId && !['doctor', 'assistant'].includes(role))
MayWriteInfo(actor, target) ==
    ~(actor # target /\ ~(Role(actor) \in {"doctor", "assistant"}))

\* a lookup that finds nothing
FindInfoMutant(target) == {}
\* the documents that match { patientId: targetPatientId }
FindInfo(target) ==
    {id \in InfoIds : infos[id] # NoDoc /\ infos[id].patientId = target}

\* PatientInfo.findOne({ patientId: targetPatientId }): the first match
FindOneInfo(target) ==
    IF FindInfo(target) = {} THEN NoId
    ELSE CHOOSE id \in FindInfo(target) : \A o \in FindInfo(target) : id <= o

\* the schema's validation at save(): gender is of the enum when it is set
SchemaValid(doc) == doc.gender \in GenderEnum \cup {None}

\* new PatientInfo({ patientId: targetPatientId, age, gender, ... }).save()
NewInfo(target, body) ==
    [patientId |-> target,
     gender |-> IF Has(body, "gender") THEN body.gender ELSE None,
     address |-> IF Has(body, "address") THEN body.address ELSE None,
     lastVisit |-> NullDate,
     updatedAt |-> now]

\* new PatientInfo({ patientId: targetPatientId })
BlankInfo(target) ==
    [patientId |-> target, gender |-> None, address |-> None,
     lastVisit |-> NullDate, updatedAt |-> now]

\* a patch that clears the fields it does not carry
PatchMutant(doc, body, f) == IF Has(body, f) THEN body[f] ELSE None
\* if (req.body[field] !== undefined) patientInfo[field] = req.body[field]
PatchField(doc, body, f) == IF Has(body, f) THEN body[f] ELSE doc[f]

\* req.body.updateLastVisit
Flag(body) == Has(body, "updateLastVisit") /\ body.updateLastVisit

\* a lastVisit that the caller may send
LastVisitMutant(doc, body) ==
    IF Has(body, "lastVisit") THEN body.lastVisit
    ELSE IF Flag(body) THEN now ELSE doc.lastVisit
\* if (req.body.updateLastVisit) patientInfo.lastVisit = Date.now()
NextLastVisit(doc, body) == IF Flag(body) THEN now ELSE doc.lastVisit

\* the document as the update handler saves it; pre('save') sets updatedAt
ApplyInfo(doc, body) ==
    [patientId |-> doc.patientId,
     gender |-> PatchField(doc, body, "gender"),
     address |-> PatchField(doc, body, "address"),
     lastVisit |-> NextLastVisit(doc, body),
     updatedAt |-> now]

\* router.post('/patient-info'): the response
PostInfo(actor, body) ==
    IF ~MayWriteInfo(actor, CreateTarget(actor, body)) THEN Reply(403, "owner")
    ELSE IF FindInfo(CreateTarget(actor, body)) # {} THEN Reply(400, "exists")
    ELSE IF ~SchemaValid(NewInfo(CreateTarget(actor, body), body))
        THEN Reply(500, "schema")
    ELSE Reply(201, "created")

\* router.post('/patient-info'): the collection after the handler
PostInfoStore(actor, body) ==
    IF PostInfo(actor, body).code = 201
    THEN [infos EXCEPT ![nextInfo] = NewInfo(CreateTarget(actor, body), body)]
    ELSE infos

\* the document that the update handler works on: the one found, or a new one
LoadedInfo(target) ==
    IF FindOneInfo(target) = NoId THEN BlankInfo(target)
    ELSE infos[FindOneInfo(target)]

\* router.put('/patient-info/:patientId'): the response
PutInfo(actor, path, body) ==
    IF ~MayWriteInfo(actor, UpdateTarget(actor, path)) THEN Reply(403, "owner")
    ELSE IF ~SchemaValid(ApplyInfo(LoadedInfo(UpdateTarget(actor, path)), body))
        THEN Reply(500, "schema")
    ELSE Reply(200, "updated")

\* router.put('/patient-info/:patientId'): the _id that save() writes
PutInfoId(actor, path) ==
    IF FindOneInfo(UpdateTarget(actor, path)) = NoId THEN nextInfo
    ELSE FindOneInfo(UpdateTarget(actor, path))

\* router.put('/patient-info/:patientId'): the collection after the handler
PutInfoStore(actor, path, body) ==
    IF PutInfo(actor, path, body).code = 200
    THEN [infos EXCEPT ![PutInfoId(actor, path)] =
              ApplyInfo(LoadedInfo(UpdateTarget(actor, path)), body)]
    ELSE infos

----------------------------------------------------------------------------
(* Users.  A User document is kept as its name and its role, the fields    *)
(* the update handler writes and reads back; email and password are        *)
(* written and answered, never tested.  Role above is the role a user      *)
(* registered with: the other routers are modelled with the users as they  *)
(* registered.                                                             *)

\* req.params.id: a user, or an id that no user has
UserIds == Users \cup {"u9"}
UserNames == {"Ann", "Bob"}
\* body('role').isIn(['patient', 'doctor', 'assistant'])
RoleEnum == {"patient", "doctor", "assistant"}

\* a password is kept as its length
UserBodies ==
    [name : UserNames, email : {"a@clinic"}, password : {6}, role : RoleEnum]
    \cup [name : {"Ann"}, email : {"a@clinic"}, password : {5},
          role : {"doctor"}]
    \cup [name : {"Ann"}, email : {"a@clinic"}, password : {6},
          role : {"admin"}]
    \cup [name : {""}, email : {"a@clinic"}, password : {6},
          role : {"patient"}]
    \cup [name : {"Ann"}, email : {"a@clinic"}, password : {6}]

\* the document of a user as registered
NewUser(id) == [name |-> "Ann", role |-> Role(id)]

\* validateUser: validationResult(req).isEmpty()
validateUser(body) ==
    /\ Has(body, "name") /\ body.name # ""
    /\ Has(body, "email")
    /\ Has(body, "password") /\ body.password >= 6
    /\ Has(body, "role") /\ body.role \in RoleEnum

\* req.user.role: the role of the stored user that the token names
ReqUserRole(actor) == users[actor].role

\* Object.assign(user, req.body)
AssignUser(doc, body) == Assign(doc, body)

\* router.put('/:id') of the users: the response
PutUser(actor, id, body) ==
    IF ~validateUser(body) THEN Reply(400, "validation")
    ELSE IF actor # id /\ ~(ReqUserRole(actor) \in StaffRoles)
        THEN Reply(403, "owner")
    ELSE IF users[id] = NoDoc THEN Reply(404, "notfound")
    ELSE Reply(200, "updated")

\* router.put('/:id') of the users: the collection after the handler
PutUserStore(actor, id, body) ==
    IF PutUser(actor, id, body).code = 200
    THEN [users EXCEPT ![id] = AssignUser(users[id], body)]
    ELSE users

----------------------------------------------------------------------------
(* The state machine: one action per route, each request handled whole *)

Init ==
    /\ appts = [id \in ApptIds |-> NoDoc]
    /\ nextAppt = 1
    /\ services = [sid \in ServiceIds |-> NoDoc]
    /\ nextSvc = 1
    /\ payments = [id \in PayIds |-> NoDoc]
    /\ nextPay = 1
    /\ reminders = [id \in RemIds |-> NoDoc]
    /\ nextRem = 1
    /\ infos = [id \in InfoIds |-> NoDoc]
    /\ nextInfo = 1
    /\ now = 1
    /\ pending = [p \in Procs |-> Idle]
    /\ users = [id \in UserIds |-> IF id \in Users THEN NewUser(id) ELSE NoDoc]

Create(actor, body) ==
    LET r == PostAppointment(actor, body) IN
    /\ r.code = 201 => nextAppt <= MaxAppts
    /\ appts' = PostAppointmentStore(actor, body)
    /\ nextAppt' = IF r.code = 201 THEN nextAppt + 1 ELSE nextAppt
    /\ UNCHANGED <<users, svcVars, payVars, remVars, infoVars>>

Update(actor, id, body) ==
    /\ appts' = PutAppointmentStore(actor, id, body)
    /\ UNCHANGED <<users, nextAppt, services, nextSvc, payVars, remVars, infoVars>>

Cancel(actor, id) ==
    /\ appts' = DeleteAppointmentStore(actor, id)
    /\ UNCHANGED <<users, nextAppt, services, nextSvc, payVars, remVars, infoVars>>

\* router.get('/:id') reads and saves nothing
Get(actor, id) ==
    /\ GetAppointment(actor, id).code \in {200, 403, 404}
    /\ UNCHANGED vars

\* router.get('/') reads and saves nothing
List(actor) ==
    /\ ListAppointments(actor) \subseteq ApptIds
    /\ UNCHANGED vars

CreateService(actor, body) ==
    LET r == PostService(actor, body) IN
    /\ r.code = 201 => nextSvc <= MaxServices
    /\ services' = IF r.code = 201
                   THEN [services EXCEPT ![nextSvc] = PostedService(body)]
                   ELSE services
    /\ nextSvc' = IF r.code = 201 THEN nextSvc + 1 ELSE nextSvc
    /\ UNCHANGED <<users, apptVars, payVars, remVars, infoVars>>

EditService(actor, sid, body) ==
    /\ services' = PutServiceStore(actor, sid, body)
    /\ UNCHANGED <<users, appts, nextAppt, nextSvc, payVars, remVars, infoVars>>

RemoveService(actor, sid) ==
    /\ services' = DeleteServiceStore(actor, sid)
    /\ UNCHANGED <<users, appts, nextAppt, nextSvc, payVars, remVars, infoVars>>

Next ==
    \/ \E actor \in Users, body \in ApptBodies : Create(actor, body)
    \/ \E actor \in Users, id \in ApptIds, body \in ApptBodies :
            Update(actor, id, body)
    \/ \E actor \in Users, id \in ApptIds : Cancel(actor, id)
    \/ \E actor \in Users, id \in ApptIds : Get(actor, id)
    \/ \E actor \in Users : List(actor)
    \/ \E actor \in Users, body \in ServiceBodies : CreateService(actor, body)
    \/ \E actor \in Users, sid \in ServiceIds, body \in EditBodies :
            EditService(actor, sid, body)
    \/ \E actor \in Users, sid \in ServiceIds : RemoveService(actor, sid)

Spec == Init /\ [][Next]_vars

(* The working-hours rule alone: a service, then well-formed bookings at   *)
(* every day and hour of the week.                                         *)
NextHours ==
    \/ \E body \in [name : {"Cleaning"}, duration : {30}, price : {50}] :
            CreateService("d1", body)
    \/ \E actor \in {"p1", "d1"}, body \in HourBodies : Create(actor, body)

SpecHours == Init /\ [][NextHours]_vars

----------------------------------------------------------------------------
(* Payments and the dashboard overview, each request handled whole *)

CreatePayment(actor, body) ==
    LET r == PostPayment(actor, body) IN
    /\ r.code = 201 => nextPay <= MaxPays
    /\ payments' = PostPaymentStore(actor, body)
    /\ nextPay' = IF r.code = 201 THEN nextPay + 1 ELSE nextPay
    /\ UNCHANGED <<users, apptVars, svcVars, remVars, infoVars>>

UpdatePaymentStatus(actor, id, body) ==
    /\ payments' = PutPaymentStore(actor, id, body)
    /\ UNCHANGED <<users, nextPay, apptVars, svcVars, remVars, infoVars>>

\* router.get('/user/:userId') reads and saves nothing
ListPayments(actor, userId) ==
    /\ GetUserPayments(actor, userId).code \in {200, 403}
    /\ UNCHANGED vars

\* router.get('/overview') reads and saves nothing
Overview(actor) ==
    /\ GetOverview(actor).code \in {200, 403}
    /\ UNCHANGED vars

NextPay ==
    \/ \E actor \in Users, body \in PayBodies : CreatePayment(actor, body)
    \/ \E actor \in Users, id \in PayIds, body \in PayStatusBodies :
            UpdatePaymentStatus(actor, id, body)
    \/ \E actor \in Users, userId \in Users : ListPayments(actor, userId)
    \/ \E actor \in Users : Overview(actor)

SpecPay == Init /\ [][NextPay]_vars

----------------------------------------------------------------------------
(* Reminders, each request handled whole *)

CreateReminder(actor, body) ==
    LET r == PostReminder(actor, body) IN
    /\ r.code = 201 => nextRem <= MaxRems
    /\ reminders' = IF r.code = 201
                    THEN [reminders EXCEPT ![nextRem] = NewReminder(body)]
                    ELSE reminders
    /\ nextRem' = IF r.code = 201 THEN nextRem + 1 ELSE nextRem
    /\ UNCHANGED <<users, apptVars, svcVars, payVars, infoVars>>

MarkRead(actor, id) ==
    /\ reminders' = PutReadStore(actor, id)
    /\ UNCHANGED <<users, nextRem, apptVars, svcVars, payVars, infoVars>>

RemoveReminder(actor, id) ==
    /\ reminders' = DeleteReminderStore(actor, id)
    /\ UNCHANGED <<users, nextRem, apptVars, svcVars, payVars, infoVars>>

NextRem ==
    \/ \E actor \in Users, body \in RemBodies : CreateReminder(actor, body)
    \/ \E actor \in Users, id \in RemIds : MarkRead(actor, id)
    \/ \E actor \in Users, id \in RemIds : RemoveReminder(actor, id)

SpecRem == Init /\ [][NextRem]_vars

----------------------------------------------------------------------------
(* PatientInfo, each request handled whole.  A record is inserted only for *)
(* a patient of InfoPatients and while an _id of InfoIds is free.          *)

MayInsert(target) == target \in InfoPatients /\ nextInfo <= MaxInfos

CreateInfo(actor, body) ==
    LET r == PostInfo(actor, body) IN
    /\ r.code = 201 => MayInsert(CreateTarget(actor, body))
    /\ infos' = PostInfoStore(actor, body)
    /\ nextInfo' = IF r.code = 201 THEN nextInfo + 1 ELSE nextInfo
    /\ UNCHANGED <<users, now, pending, apptVars, svcVars, payVars, remVars>>

UpdateInfo(actor, path, body) ==
    LET r == PutInfo(actor, path, body)
        inserts == r.code = 200 /\ PutInfoId(actor, path) = nextInfo
    IN
    /\ inserts => MayInsert(UpdateTarget(actor, path))
    /\ infos' = PutInfoStore(actor, path, body)
    /\ nextInfo' = IF inserts THEN nextInfo + 1 ELSE nextInfo
    /\ UNCHANGED <<users, now, pending, apptVars, svcVars, payVars, remVars>>

\* time passes between two requests
Tick ==
    /\ now < MaxNow
    /\ now' = now + 1
    /\ UNCHANGED <<users, infos, nextInfo, pending, apptVars, svcVars, payVars, remVars>>

NextInfo ==
    \/ \E actor \in Users, body \in InfoBodies : CreateInfo(actor, body)
    \/ \E actor \in Users, path \in InfoPaths, body \in InfoPatches :
            UpdateInfo(actor, path, body)
    \/ Tick

SpecInfo == Init /\ [][NextInfo]_vars

----------------------------------------------------------------------------
(* PatientInfo with requests in flight.  Both handlers await findOne and   *)
(* later await save(), and another request may run in between: a request   *)
(* takes a slot of pending at its findOne and leaves it at its save.  A    *)
(* request that is refused at its check changes nothing.                   *)

RaceActors == {"p1", "d1"}
RaceBodies == [patientId : {"p1"}, gender : {"male"}, address : {"a1"}]
RacePatches == [address : {"a1"}] \cup [gender : {"female"}, address : {"a1"}]
RacePaths == {"p1"}

\* router.post('/patient-info') up to its findOne
FindForCreate(p, actor, body) ==
    /\ pending[p] = Idle
    /\ pending' =
          IF MayWriteInfo(actor, CreateTarget(actor, body))
             /\ FindInfo(CreateTarget(actor, body)) = {}
          THEN [pending EXCEPT ![p] =
                    [kind |-> "create", target |-> CreateTarget(actor, body),
                     body |-> body]]
          ELSE pending
    /\ UNCHANGED <<users, infos, nextInfo, now, apptVars, svcVars, payVars, remVars>>

\* router.post('/patient-info') from new PatientInfo(...) to its save
SaveCreate(p) ==
    /\ pending[p] # Idle
    /\ pending[p].kind = "create"
    /\ MayInsert(pending[p].target)
    /\ LET doc == NewInfo(pending[p].target, pending[p].body) IN
       /\ infos' = IF SchemaValid(doc) THEN [infos EXCEPT ![nextInfo] = doc]
                   ELSE infos
       /\ nextInfo' = IF SchemaValid(doc) THEN nextInfo + 1 ELSE nextInfo
    /\ pending' = [pending EXCEPT ![p] = Idle]
    /\ UNCHANGED <<users, now, apptVars, svcVars, payVars, remVars>>

\* router.put('/patient-info/:patientId') up to its findOne
FindForUpdate(p, actor, path, body) ==
    /\ pending[p] = Idle
    /\ pending' =
          IF MayWriteInfo(actor, UpdateTarget(actor, path))
          THEN [pending EXCEPT ![p] =
                    [kind |-> "update", target |-> UpdateTarget(actor, path),
                     body |-> body,
                     found |-> FindOneInfo(UpdateTarget(actor, path))]]
          ELSE pending
    /\ UNCHANGED <<users, infos, nextInfo, now, apptVars, svcVars, payVars, remVars>>

\* router.put('/patient-info/:patientId') from its findOne to its save: the
\* document found is written back with the paths the handler assigned, and a
\* document that was not found is inserted
SaveUpdate(p) ==
    /\ pending[p] # Idle
    /\ pending[p].kind = "update"
    /\ pending[p].found = NoId => MayInsert(pending[p].target)
    /\ LET id == IF pending[p].found = NoId THEN nextInfo ELSE pending[p].found
           doc == IF pending[p].found = NoId
                  THEN ApplyInfo(BlankInfo(pending[p].target), pending[p].body)
                  ELSE ApplyInfo(infos[pending[p].found], pending[p].body)
       IN
       /\ infos' = IF SchemaValid(doc) THEN [infos EXCEPT ![id] = doc]
                   ELSE infos
       /\ nextInfo' = IF SchemaValid(doc) /\ pending[p].found = NoId
                      THEN nextInfo + 1 ELSE nextInfo
    /\ pending' = [pending EXCEPT ![p] = Idle]
    /\ UNCHANGED <<users, now, apptVars, svcVars, payVars, remVars>>

NextInfoRace ==
    \/ \E p \in Procs, actor \in RaceActors, body \in RaceBodies :
            FindForCreate(p, actor, body)
    \/ \E p \in Procs : SaveCreate(p)
    \/ \E p \in Procs, actor \in RaceActors, path \in RacePaths,
          body \in RacePatches : FindForUpdate(p, actor, path, body)
    \/ \E p \in Procs : SaveUpdate(p)

SpecInfoRace == Init /\ [][NextInfoRace]_vars

----------------------------------------------------------------------------
(* Appointment updates with requests in flight.  router.put('/:id') awaits *)
(* Appointment.findById and later awaits appointment.save(), and another   *)
(* request may run in between: an update takes a slot of pending at its    *)
(* load, with the document it loaded, and leaves it at its save.  Its      *)
(* checks read the loaded document; an update that they refuse changes     *)
(* nothing.                                                                *)

RacePutActors == {"p1", "d1"}
RacePuts ==
    [user : {"p1"}, doctor : Doctors, service : {1}, date : {SatOpen, WedLast},
     status : {"scheduled", "completed"}]

\* a save that writes the whole document as the handler holds it
SaveOverMutant(stored, loaded, body) == Assign(loaded, body)
\* Object.assign(appointment, req.body); await appointment.save(): save()
\* of a loaded document writes the paths whose value the handler changed
SaveOver(stored, loaded, body) ==
    [f \in DOMAIN stored |->
        IF Has(body, f) /\ body[f] # loaded[f] THEN body[f] ELSE stored[f]]

\* router.put('/:id') up to its last check
LoadForPut(p, actor, id, body) ==
    /\ pending[p] = Idle
    /\ pending' =
          IF PutAppointment(actor, id, body).code = 200
          THEN [pending EXCEPT ![p] =
                    [kind |-> "put", actor |-> actor, id |-> id,
                     body |-> body, loaded |-> appts[id]]]
          ELSE pending
    /\ UNCHANGED <<users, apptVars, svcVars, payVars, remVars, infos, nextInfo, now>>

\* router.put('/:id') from Object.assign to its save
SaveForPut(p) ==
    /\ pending[p] # Idle
    /\ pending[p].kind = "put"
    /\ appts' = [appts EXCEPT ![pending[p].id] =
                    SaveOver(@, pending[p].loaded, pending[p].body)]
    /\ pending' = [pending EXCEPT ![p] = Idle]
    /\ UNCHANGED <<users, nextAppt, svcVars, payVars, remVars, infos, nextInfo, now>>

NextApptRace ==
    \/ \E body \in [name : {"Cleaning"}, duration : {30}, price : {50}] :
            CreateService("d1", body)
    \/ \E actor \in RacePutActors, body \in RacePuts : Create(actor, body)
    \/ \E p \in Procs, actor \in RacePutActors, id \in ApptIds,
          body \in RacePuts : LoadForPut(p, actor, id, body)
    \/ \E p \in Procs : SaveForPut(p)

SpecApptRace == Init /\ [][NextApptRace]_vars

----------------------------------------------------------------------------
(* Service creation and renaming with requests in flight.  Both handlers   *)
(* await Service.findOne({ name }) and later await service.save(): a       *)
(* request takes a slot of pending once its name check has passed, and     *)
(* leaves it at its save.                                                  *)

RaceNames == [name : Names]
RaceServiceBodies == [name : Names, duration : {30}, price : {50}]

\* the creations in flight
Creating == {p \in Procs : pending[p] # Idle /\ pending[p].kind = "svcCreate"}

\* a save that a unique index on name refuses
InsertUnique(store, sid, doc) ==
    IF \E other \in ServiceIds :
            store[other] # NoDoc /\ store[other].name = doc.name
    THEN store
    ELSE [store EXCEPT ![sid] = doc]
\* await service.save() of a new Service: the collection takes the document
InsertService(store, sid, doc) == [store EXCEPT ![sid] = doc]

\* await service.save() of a loaded Service: the paths the handler changed
SavedEdit(stored, loaded, body) ==
    LET edited == EditedService(loaded, body) IN
    [f \in DOMAIN stored |->
        IF edited[f] # loaded[f] THEN edited[f] ELSE stored[f]]

\* the collection after the save of a request in flight
SvcSaved(store, next, req) ==
    IF req.kind = "svcCreate"
    THEN InsertService(store, next, PostedService(req.body))
    ELSE [store EXCEPT ![req.sid] = SavedEdit(@, req.loaded, req.body)]

\* the next fresh _id after the save of a request in flight
SvcNext(next, req) == IF req.kind = "svcCreate" THEN next + 1 ELSE next

\* router.post('/create') up to its findOne
FindForSvcCreate(p, actor, body) ==
    /\ pending[p] = Idle
    /\ nextSvc + Cardinality(Creating) <= MaxServices
    /\ pending' =
          IF PostService(actor, body).code = 201
          THEN [pending EXCEPT ![p] = [kind |-> "svcCreate", body |-> body]]
          ELSE pending
    /\ UNCHANGED <<users, apptVars, svcVars, payVars, remVars, infos, nextInfo, now>>

\* router.put('/edit-service/:id') up to its findOne
FindForSvcEdit(p, actor, sid, body) ==
    /\ pending[p] = Idle
    /\ pending' =
          IF PutService(actor, sid, body).code = 200
          THEN [pending EXCEPT ![p] =
                    [kind |-> "svcEdit", sid |-> sid, body |-> body,
                     loaded |-> services[sid]]]
          ELSE pending
    /\ UNCHANGED <<users, apptVars, svcVars, payVars, remVars, infos, nextInfo, now>>

\* either handler from its findOne to its save
SaveSvc(p) ==
    /\ pending[p] # Idle
    /\ pending[p].kind \in {"svcCreate", "svcEdit"}
    /\ services' = SvcSaved(services, nextSvc, pending[p])
    /\ nextSvc' = SvcNext(nextSvc, pending[p])
    /\ pending' = [pending EXCEPT ![p] = Idle]
    /\ UNCHANGED <<users, apptVars, payVars, remVars, infos, nextInfo, now>>

NextSvcRace ==
    \/ \E p \in Procs, body \in RaceServiceBodies :
            FindForSvcCreate(p, "d1", body)
    \/ \E p \in Procs, sid \in ServiceIds, body \in RaceNames :
            FindForSvcEdit(p, "d1", sid, body)
    \/ \E p \in Procs : SaveSvc(p)

SpecSvcRace == Init /\ [][NextSvcRace]_vars

----------------------------------------------------------------------------
(* The users router alone *)

UpdateUser(actor, id, body) ==
    /\ users' = PutUserStore(actor, id, body)
    /\ UNCHANGED <<apptVars, svcVars, payVars, remVars, infoVars>>

NextUsers ==
    \E actor \in Users, id \in UserIds, body \in UserBodies :
        UpdateUser(actor, id, body)

SpecUsers == Init /\ [][NextUsers]_vars

----------------------------------------------------------------------------
(* Properties *)

Stored(id) == appts[id] # NoDoc
Patient(actor) == Role(actor) = "patient"
Staff(actor) == Role(actor) \in {"doctor", "assistant"}

\* Saturday to Wednesday, local hour in [8, 18)
Bookable(t) ==
    /\ getDay(t) \in {6, 0, 1, 2, 3}
    /\ 8 <= getHours(t)
    /\ getHours(t) < 18

HourBody(t) == [user |-> "p1", doctor |-> "d1", service |-> 1, date |-> t]

\* C1: with a well-formed body and an active service, create accepts the
\* timestamp t iff t falls on Saturday..Wednesday with local hour in [8, 18);
\* Thursday 10:00, Saturday 07:59 and Wednesday 18:00 are rejected, Saturday
\* 08:00 and Wednesday 17:59 are accepted.
C1_CreateAcceptsIffBookable ==
    ServiceAvailable(1) =>
        /\ \A actor \in Users, body \in HourBodies :
              PostAppointment(actor, body).code = 201 <=> Bookable(body.date)
        /\ \A actor \in Users, body \in HourBodies :
              PostAppointment(actor, body).code \in {201, 400}
        /\ \A actor \in Users :
              /\ PostAppointment(actor, HourBody(ThuTen)).code = 400
              /\ PostAppointment(actor, HourBody(SatEarly)).code = 400
              /\ PostAppointment(actor, HourBody(WedClosed)).code = 400
              /\ PostAppointment(actor, HourBody(SatOpen)).code = 201
              /\ PostAppointment(actor, HourBody(WedLast)).code = 201

\* a booking at the last bookable minute is stored, the first bookable
\* minute is still accepted, and Thursday 10:00 and Wednesday 18:00 are refused
C1_Witness ==
    /\ \E id \in ApptIds : Stored(id) /\ appts[id].date = WedLast
    /\ PostAppointment("p1", HourBody(SatOpen)).code = 201
    /\ PostAppointment("p1", HourBody(SatEarly)) = Reply(400, "hour")
    /\ PostAppointment("p1", HourBody(ThuTen)) = Reply(400, "day")
    /\ PostAppointment("p1", HourBody(WedClosed)) = Reply(400, "hour")

C3_CreateOwner ==
    \A actor \in Users, body \in ApptBodies :
        PostAppointment(actor, body).code = 201 =>
            /\ Patient(actor) => PostedAppointment(actor, body).user = actor
            /\ Staff(actor) => PostedAppointment(actor, body).user = body.user

\* BodyUsers does not hold p2: an appointment stored under p2 was created by
\* p2 with a body that names another user
C3_Witness ==
    /\ "p2" \notin BodyUsers
    /\ \E id \in ApptIds : Stored(id) /\ appts[id].user = "p2"
    /\ \E body \in FullBodies :
          /\ PostAppointment("a1", body).code = 201
          /\ PostedAppointment("a1", body).user = "d1"

\* the service and schedule checks of an update with this body pass
OtherChecksPass(id, body) ==
    /\ body.service = appts[id].service
          \/ (services[body.service] # NoDoc /\ services[body.service].isActive)
    /\ Bookable(body.date)

\* C4: an update by the owning patient whose body carries a status other than
\* the current one leaves the appointment unchanged and, the body being
\* well-formed, is answered Forbidden; the same update by a doctor or an
\* assistant is not forbidden and, its service and date being acceptable,
\* succeeds and stores the new status.
C4_PatientCannotChangeStatus ==
    \A actor \in Users, id \in ApptIds, body \in ApptBodies :
        (/\ Stored(id)
         /\ Has(body, "status")
         /\ body.status \in Statuses
         /\ body.status # appts[id].status) =>
            /\ (Patient(actor) /\ appts[id].user = actor) =>
                  /\ PutAppointmentStore(actor, id, body) = appts
                  /\ validateAppointment(body) =>
                        PutAppointment(actor, id, body) = Reply(403, "status")
            /\ Staff(actor) =>
                  /\ PutAppointment(actor, id, body).code # 403
                  /\ (validateAppointment(body) /\ OtherChecksPass(id, body)) =>
                        /\ PutAppointment(actor, id, body).code = 200
                        /\ PutAppointmentStore(actor, id, body)[id].status
                              = body.status

\* a scheduled appointment of a patient: the owner's request to complete it
\* is forbidden, the doctor's and the assistant's identical request succeeds
C4_Witness ==
    \E id \in ApptIds, body \in FullBodies :
        /\ Stored(id)
        /\ Patient(appts[id].user)
        /\ appts[id].status = "scheduled"
        /\ Has(body, "status")
        /\ body.status = "completed"
        /\ PutAppointment(appts[id].user, id, body) = Reply(403, "status")
        /\ PutAppointment("d1", id, body).code = 200
        /\ PutAppointmentStore("a1", id, body)[id].status = "completed"

\* C5 as stated: cancel removes the appointment only for the patient who owns
\* it, and every cancel by a doctor or an assistant is answered Forbidden and
\* leaves the appointment stored, also when its user field names that actor.
C5_StaffNeverCancel ==
    \A actor \in Users, id \in ApptIds :
        Stored(id) =>
            /\ DeleteAppointment(actor, id).code = 200 =>
                  (Patient(actor) /\ appts[id].user = actor)
            /\ Staff(actor) =>
                  /\ DeleteAppointment(actor, id).code = 403
                  /\ DeleteAppointmentStore(actor, id) = appts

\* C5 amended: cancel removes the appointment iff the actor's id equals the
\* appointment's user, whatever the actor's role; any other actor, staff
\* included, is answered Forbidden and the appointment stays stored.
C5_OnlyNamedUserCancels ==
    \A actor \in Users, id \in ApptIds :
        Stored(id) =>
            IF appts[id].user = actor
            THEN /\ DeleteAppointment(actor, id).code = 200
                 /\ DeleteAppointmentStore(actor, id) =
                       [appts EXCEPT ![id] = NoDoc]
            ELSE /\ DeleteAppointment(actor, id).code = 403
                 /\ DeleteAppointmentStore(actor, id) = appts

\* an appointment whose user is the doctor: the doctor cancels it, the
\* assistant and the patients are refused
C5_Witness ==
    \E id \in ApptIds :
        /\ Stored(id)
        /\ appts[id].user = "d1"
        /\ DeleteAppointment("d1", id).code = 200
        /\ DeleteAppointmentStore("d1", id)[id] = NoDoc
        /\ DeleteAppointment("a1", id).code = 403
        /\ DeleteAppointment("p1", id).code = 403
        /\ DeleteAppointmentStore("a1", id) = appts

\* C6: on an existing appointment a patient's get and update pass the
\* ownership check iff the appointment's user is the patient; the non-owner
\* is answered Forbidden (for an update: once the body passes validation),
\* is not given the appointment and does not modify it.  Doctors and
\* assistants get every appointment and are never forbidden to update one.
C6_PatientOwnerOnly ==
    \A actor \in Users, id \in ApptIds :
        Stored(id) =>
            LET allowed == Staff(actor) \/ appts[id].user = actor IN
            /\ GetAppointment(actor, id).code = IF allowed THEN 200 ELSE 403
            /\ \A body \in ApptBodies :
                  LET r == PutAppointment(actor, id, body) IN
                  /\ ~allowed => PutAppointmentStore(actor, id, body) = appts
                  /\ ~allowed => r.code \in {400, 403}
                  /\ validateAppointment(body) =>
                        (r = Reply(403, "owner") <=> ~allowed)
                  /\ Staff(actor) => r.code # 403
                  /\ (Patient(actor) /\ allowed /\ validateAppointment(body)
                        /\ ~Has(body, "status") /\ OtherChecksPass(id, body))
                        => r.code = 200

\* p1's appointment: p2 may neither read nor update it, p1 and the staff may
C6_Witness ==
    \E id \in ApptIds, body \in FullBodies :
        /\ Stored(id)
        /\ appts[id].user = "p1"
        /\ GetAppointment("p2", id).code = 403
        /\ PutAppointment("p2", id, body) = Reply(403, "owner")
        /\ GetAppointment("p1", id).code = 200
        /\ PutAppointment("p1", id, body).code = 200
        /\ GetAppointment("a1", id).code = 200
        /\ PutAppointment("d1", id, body).code = 200

ActiveNow(sid) == services[sid] # NoDoc /\ services[sid].isActive

\* C8: a create, and an update that names a service other than the current
\* one, succeeds only if the named service exists and is active then, and is
\* otherwise refused with nothing stored; a step that deactivates or deletes
\* a service changes no appointment.
C8_ServiceActiveWhenBooked ==
    /\ [](\A actor \in Users, body \in ApptBodies :
            /\ PostAppointment(actor, body).code = 201
                  => ActiveNow(body.service)
            /\ \A id \in ApptIds :
                  (/\ Stored(id)
                   /\ Has(body, "service")
                   /\ body.service # appts[id].service
                   /\ ~ActiveNow(body.service))
                  => /\ PutAppointment(actor, id, body).code \in {400, 403}
                     /\ PutAppointmentStore(actor, id, body) = appts)
    /\ [][services' # services => appts' = appts]_vars
    /\ [][\A id \in ApptIds :
            (Stored(id) /\ appts'[id] # NoDoc
               /\ appts'[id].service # appts[id].service)
            => ActiveNow(appts'[id].service)]_vars
    /\ [][\A id \in ApptIds :
            (~Stored(id) /\ appts'[id] # NoDoc)
            => ActiveNow(appts'[id].service)]_vars

\* an appointment that outlives its service, which was deleted after the
\* booking: a new booking of that service is refused, and so is moving the
\* appointment to the other service, which was deactivated
C8_Witness ==
    \E i \in ApptIds, other \in ServiceIds :
        /\ Stored(i) /\ services[appts[i].service] = NoDoc
        /\ PostAppointment("d1", [user |-> "p1", doctor |-> "d1",
              service |-> appts[i].service, date |-> SatOpen])
              = Reply(400, "service")
        /\ other # appts[i].service
        /\ services[other] # NoDoc /\ ~services[other].isActive
        /\ PutAppointment("d1", i, [user |-> "p1", doctor |-> "d1",
              service |-> other, date |-> SatOpen]) = Reply(400, "service")

\* C9: with every service request handled whole, no two stored services share
\* a name; a create of a name that is taken and a rename to a name that
\* another service holds are answered with the name conflict and leave the
\* collection unchanged.
C9_ServiceNamesUnique ==
    /\ \A s1, s2 \in ServiceIds :
          (services[s1] # NoDoc /\ services[s2] # NoDoc /\ s1 # s2)
          => services[s1].name # services[s2].name
    /\ \A sid \in ServiceIds :
          services[sid] # NoDoc =>
              /\ \A body \in ServiceBodies :
                    (/\ Has(body, "name") /\ body.name = services[sid].name
                     /\ Has(body, "duration") /\ Has(body, "price")
                     /\ body.price # 0)
                    => PostService("d1", body) = Reply(400, "exists")
              /\ \A other \in ServiceIds, body \in EditBodies :
                    (/\ other # sid /\ services[other] # NoDoc
                     /\ Has(body, "name") /\ body.name = services[sid].name)
                    => /\ PutService("d1", other, body) = Reply(400, "exists")
                       /\ PutServiceStore("d1", other, body) = services

\* two stored services: creating a third under the first one's name and
\* renaming the second to it both meet the conflict
C9_Witness ==
    /\ services[1] # NoDoc
    /\ services[2] # NoDoc
    /\ PostService("d1", [name |-> services[1].name, duration |-> 30,
          price |-> 50]) = Reply(400, "exists")
    /\ PutService("d1", 2, [name |-> services[1].name]) = Reply(400, "exists")
    /\ PutService("d1", 2, [name |-> services[2].name]).code = 200

\* C10 as stated: service create and update are allowed for the doctor and
\* the assistant alike and are answered Forbidden for every patient.
C10_StaffMayWriteServices ==
    \A actor \in Users :
        /\ Staff(actor) =>
              /\ \A body \in ServiceBodies : PostService(actor, body).code # 403
              /\ \A sid \in ServiceIds, body \in EditBodies :
                    PutService(actor, sid, body).code # 403
        /\ Patient(actor) =>
              /\ \A body \in ServiceBodies : PostService(actor, body).code = 403
              /\ \A sid \in ServiceIds, body \in EditBodies :
                    PutService(actor, sid, body).code = 403

\* C10 amended: service create and update are allowed for doctors only; they
\* are answered Forbidden for every patient and for every assistant.
C10_DoctorOnlyWritesServices ==
    \A actor \in Users :
        /\ Role(actor) = "doctor" =>
              /\ \A body \in ServiceBodies : PostService(actor, body).code # 403
              /\ \A sid \in ServiceIds, body \in EditBodies :
                    PutService(actor, sid, body).code # 403
        /\ Role(actor) # "doctor" =>
              /\ \A body \in ServiceBodies :
                    /\ PostService(actor, body).code = 403
              /\ \A sid \in ServiceIds, body \in EditBodies :
                    /\ PutService(actor, sid, body).code = 403
                    /\ PutServiceStore(actor, sid, body) = services

\* a service the doctor created and renamed; the assistant's and the
\* patient's create and update are forbidden
C10_Witness ==
    /\ services[1] # NoDoc
    /\ services[1].name = "Whitening"
    /\ ~services[1].isActive
    /\ PutService("d1", 1, [name |-> "Cleaning"]).code = 200
    /\ PutService("a1", 1, [name |-> "Cleaning"]).code = 403
    /\ PutService("p1", 1, [name |-> "Cleaning"]).code = 403
    /\ PostService("a1", [name |-> "Cleaning", duration |-> 30, price |-> 50])
          .code = 403

----------------------------------------------------------------------------
(* Properties of payments and of the overview *)

\* C11: a patient's payment is stored under the patient's own id, whatever
\* user the body names; a staff actor's payment is stored with the user that
\* the body names.
C11_PaymentOwner ==
    \A actor \in Users, body \in PayBodies :
        (PostPayment(actor, body).code = 201 /\ nextPay <= MaxPays) =>
            LET stored == PostPaymentStore(actor, body)[nextPay] IN
            /\ stored # NoDoc
            /\ Patient(actor) => stored.user = actor
            /\ Staff(actor) => stored.user = body.user
            /\ \A id \in PayIds :
                  id # nextPay =>
                      PostPaymentStore(actor, body)[id] = payments[id]

\* BodyUsers does not hold p2: a payment stored under p2 was created by p2
\* with a body that names another user; a payment stored under the doctor's
\* id was created by a staff actor, whose body named the doctor
C11_Witness ==
    /\ "p2" \notin BodyUsers
    /\ \E i, j \in PayIds :
          /\ payments[i] # NoDoc /\ payments[i].user = "p2"
          /\ payments[j] # NoDoc /\ payments[j].user = "d1"
    /\ \E body \in PayBodies :
          /\ Has(body, "user") /\ body.user = "p1"
          /\ PostPayment("p2", body).code = 201
          /\ PostedPayment("p2", body).user = "p2"
          /\ PostedPayment("a1", body).user = "p1"

\* the fields of a payment that a status update does not name
PaymentFrame == {"user", "appointment", "amount", "paymentMethod"}

\* C12: a payment's status update succeeds only for a doctor or an assistant
\* and only with a status of {pending, completed, failed}; from every current
\* status a staff update reaches each of the three; a patient's update and an
\* update whose status is missing or outside the enum are refused and leave
\* the payment as it was; no update changes a field other than status.
C12_PaymentStatusStaffOnly ==
    \A actor \in Users, id \in PayIds, body \in PayStatusBodies :
        payments[id] # NoDoc =>
            LET r == PutPayment(actor, id, body)
                after == PutPaymentStore(actor, id, body)
                valid == Has(body, "status")
                         /\ body.status \in {"pending", "completed", "failed"}
            IN
            /\ r.code = 200 <=> (Staff(actor) /\ valid)
            /\ r.code = 200 => after[id].status = body.status
            /\ Patient(actor) => (r.code = 403 /\ after = payments)
            /\ ~valid => (r.code \in {400, 403} /\ after = payments)
            /\ \A f \in PaymentFrame : after[id][f] = payments[id][f]
            /\ \A other \in PayIds : other # id => after[other] = payments[other]
            /\ \A st \in {"pending", "completed", "failed"} :
                  PutPaymentStore("a1", id, [status |-> st])[id].status = st

\* a payment that was created pending and paid in cash is now failed: the
\* doctor may set it back to pending, the patient who owns it may not, and a
\* status outside the enum is refused
C12_Witness ==
    \E id \in PayIds :
        /\ payments[id] # NoDoc
        /\ payments[id].paymentMethod = "cash"
        /\ payments[id].status = "failed"
        /\ PutPayment("d1", id, [status |-> "pending"]).code = 200
        /\ PutPaymentStore("d1", id, [status |-> "pending"])[id].status = "pending"
        /\ PutPayment(payments[id].user, id, [status |-> "pending"]).code = 403
        /\ PutPayment("a1", id, [status |-> "bogus"]).code = 400
        /\ PutPayment("a1", id, [amount |-> 20]).code = 400

\* C13 as stated, for every user U who has payments to list: actor A may list
\* the payments of user U iff A is U or A is
\* a doctor or an assistant, and every other actor is answered Forbidden; an
\* assistant may list the payments of any user.
C13_OwnerOrStaffLists ==
    \A actor \in Users, userId \in Users :
        FindUserPayments(userId) # {} =>
            /\ GetUserPayments(actor, userId).code =
                  IF actor = userId \/ Staff(actor) THEN 200 ELSE 403
            /\ Role(actor) = "assistant" =>
                  GetUserPayments(actor, userId).code = 200

\* a stored payment of p1: p1 and the doctor list it, p2 is forbidden, and so
\* is the assistant
C13_Witness ==
    \E id \in PayIds :
        /\ FindUserPayments("p1") = {id}
        /\ GetUserPayments("p1", "p1").code = 200
        /\ GetUserPayments("d1", "p1").code = 200
        /\ GetUserPayments("p2", "p1").code = 403
        /\ GetUserPayments("a1", "p1").code = 403
        /\ GetUserPayments("a1", "a1").code = 200

\* the amount that the payment with this _id adds to the revenue
CompletedAmount(id) ==
    IF payments[id] # NoDoc /\ payments[id].status = "completed"
    THEN payments[id].amount ELSE 0

\* the revenue of the payments 1..n
RECURSIVE RevenueUpTo(_)
RevenueUpTo(n) ==
    IF n = 0 THEN 0 ELSE CompletedAmount(n) + RevenueUpTo(n - 1)

\* C19: the overview's totalRevenue is the sum of amount over the stored
\* payments whose status is completed; it is the number 0 when no payment is
\* completed, and a pending or failed payment adds nothing.
C19_RevenueIsCompletedSum ==
    /\ TotalRevenue \in Nat
    /\ TotalRevenue = RevenueUpTo(MaxPays)
    /\ (\A id \in PayIds :
            payments[id] # NoDoc => payments[id].status # "completed")
          => TotalRevenue = 0
    /\ \A actor \in Users : Staff(actor) => GetOverview(actor).code = 200

\* a completed payment of 50 next to a failed payment of 20: the revenue is
\* 50, and it grows to 70 once the assistant completes the other one
C19_Witness ==
    \E i, j \in PayIds :
        /\ payments[i] # NoDoc /\ payments[j] # NoDoc
        /\ payments[i].status = "completed" /\ payments[i].amount = 50
        /\ payments[j].status = "failed" /\ payments[j].amount = 20
        /\ TotalRevenue = 50
        /\ PutPayment("a1", j, [status |-> "completed"]).code = 200

----------------------------------------------------------------------------
(* Properties of reminders *)

\* C14: marking an existing reminder read succeeds iff the actor is the
\* reminder's user; every other actor, a doctor or an assistant included, is
\* answered Forbidden and isRead stays as it was.  A successful request sets
\* isRead to true and changes nothing else, and no step sets the isRead of a
\* reminder back to false.
C14_OnlyAddresseeMarksRead ==
    /\ [](\A actor \in Users, id \in RemIds :
            reminders[id] # NoDoc =>
                LET r == PutRead(actor, id)
                    after == PutReadStore(actor, id)
                IN
                /\ r.code = IF reminders[id].user = actor THEN 200 ELSE 403
                /\ r.code = 403 => after = reminders
                /\ r.code = 200 =>
                      /\ after[id].isRead
                      /\ \A f \in {"user", "appointment", "title"} :
                            after[id][f] = reminders[id][f]
                      /\ \A other \in RemIds :
                            other # id => after[other] = reminders[other])
    /\ [][\A id \in RemIds :
            (reminders[id] # NoDoc /\ reminders[id].isRead
               /\ reminders'[id] # NoDoc)
            => reminders'[id].isRead]_vars

\* no request creates a reminder for p2 with isRead set, so a read reminder
\* of p2 was marked by p2; the doctor and the assistant may not mark the
\* unread reminder of p1
C14_Witness ==
    \E i, j \in RemIds :
        /\ reminders[i] # NoDoc /\ reminders[i].user = "p2"
        /\ reminders[i].isRead
        /\ reminders[j] # NoDoc /\ reminders[j].user = "p1"
        /\ ~reminders[j].isRead
        /\ PutRead("d1", j).code = 403
        /\ PutRead("a1", j).code = 403
        /\ PutRead("p2", j).code = 403
        /\ PutRead("p1", j).code = 200
        /\ PutReadStore("a1", j) = reminders

----------------------------------------------------------------------------
(* Properties of PatientInfo *)

HasRecord(target) ==
    \E id \in InfoIds : infos[id] # NoDoc /\ infos[id].patientId = target

RecordsOf(coll, target) ==
    {id \in InfoIds : coll[id] # NoDoc /\ coll[id].patientId = target}

\* C15: a create for a patient who already has a record is refused, with the
\* "already exists" conflict when the actor may write that patient's record,
\* and leaves every record, and so the number of records, as it was.
C15_SecondCreateConflicts ==
    \A actor \in Users, body \in InfoBodies :
        HasRecord(CreateTarget(actor, body)) =>
            /\ PostInfo(actor, body).code \in {400, 403}
            /\ MayWriteInfo(actor, CreateTarget(actor, body)) =>
                  PostInfo(actor, body) = Reply(400, "exists")
            /\ PostInfoStore(actor, body) = infos

\* p1 has a record and p2 has none: a second create for p1, by p1 or by the
\* doctor, meets the conflict, while p2's own create is accepted
C15_Witness ==
    /\ HasRecord("p1")
    /\ ~HasRecord("p2")
    /\ PostInfo("p1", [gender |-> "male"]) = Reply(400, "exists")
    /\ PostInfo("d1", [patientId |-> "p1", gender |-> "male",
          address |-> "a1"]) = Reply(400, "exists")
    /\ PostInfo("p2", [gender |-> "male"]).code = 201
    /\ PostInfoStore("p1", [gender |-> "male"]) = infos

\* the fields of a record that a request may set
InfoFields == {"gender", "address"}

\* a patch whose fields the schema accepts
PatchValid(body) == Has(body, "gender") => body.gender \in GenderEnum

C17_OneRecordPerPatient ==
    \A i, j \in InfoIds :
        (infos[i] # NoDoc /\ infos[j] # NoDoc /\ i # j) =>
            infos[i].patientId # infos[j].patientId

\* a create and an update for p1 are both past their findOne, which found
\* nothing, and neither has saved yet
C17_Witness ==
    /\ ~HasRecord("p1")
    /\ \E p, q \in Procs :
          /\ pending[p] # Idle /\ pending[p].kind = "create"
          /\ pending[p].target = "p1"
          /\ pending[q] # Idle /\ pending[q].kind = "update"
          /\ pending[q].target = "p1"
          /\ pending[q].found = NoId

\* C18: a create stores a null lastVisit whatever the request carries; an
\* update that carries the updateLastVisit flag sets lastVisit to the server's
\* clock, and an update without the flag leaves it as it was (null on the
\* record the update inserts), also when the request carries a lastVisit of
\* its own.  In every step a record's lastVisit stays, or becomes the clock's
\* reading.
C18_LastVisitOnlyByFlag ==
    /\ [](\A actor \in Users, body \in InfoBodies :
            (PostInfo(actor, body).code = 201 /\ nextInfo <= MaxInfos) =>
                PostInfoStore(actor, body)[nextInfo].lastVisit = NullDate)
    /\ [](\A actor \in Users, path \in InfoPaths, body \in InfoPatches :
            LET target == UpdateTarget(actor, path)
                id == PutInfoId(actor, path)
                before == IF HasRecord(target) THEN infos[id].lastVisit
                          ELSE NullDate
            IN
            (PutInfo(actor, path, body).code = 200 /\ id \in InfoIds) =>
                PutInfoStore(actor, path, body)[id].lastVisit =
                    IF Has(body, "updateLastVisit") /\ body.updateLastVisit
                    THEN now ELSE before)
    /\ [][\A id \in InfoIds :
            infos'[id] # NoDoc =>
                \/ infos[id] # NoDoc /\ infos'[id].lastVisit = infos[id].lastVisit
                \/ infos[id] = NoDoc /\ infos'[id].lastVisit = NullDate
                \/ infos'[id].lastVisit = now]_vars

\* a record visited at an earlier reading of the clock: a request that sends
\* a lastVisit of its own leaves it, with or without other fields, and the
\* flag alone moves it to the present reading
C18_Witness ==
    \E id \in InfoIds :
        /\ infos[id] # NoDoc
        /\ infos[id].patientId = "p1"
        /\ infos[id].lastVisit # NullDate
        /\ infos[id].lastVisit < now
        /\ PutInfo("p1", "me", [lastVisit |-> 99]).code = 200
        /\ PutInfoStore("p1", "me", [lastVisit |-> 99])[id].lastVisit
              = infos[id].lastVisit
        /\ PutInfoStore("d1", "p1", [updateLastVisit |-> FALSE])[id].lastVisit
              = infos[id].lastVisit
        /\ PutInfoStore("d1", "p1", [updateLastVisit |-> TRUE])[id].lastVisit
              = now

----------------------------------------------------------------------------
(* Properties of appointment updates that carry some of the fields *)

\* the status, service and date rules of an update accept this patch
PatchAcceptable(actor, id, body) ==
    /\ Staff(actor) \/ appts[id].user = actor
    /\ (Patient(actor) /\ Has(body, "status")) => body.status = appts[id].status
    /\ Has(body, "status") => body.status \in Statuses
    /\ Has(body, "service") =>
          (body.service = appts[id].service \/ ActiveNow(body.service))
    /\ Has(body, "date") => Bookable(body.date)

\* C20 as stated: an update by an authorized actor whose patch carries only
\* some of the fields, only notes for one, succeeds, stores the fields of the
\* patch and leaves every field that the patch does not carry at its value.
C20_PartialPatch ==
    \A actor \in Users, id \in ApptIds, body \in PartialBodies :
        (Stored(id) /\ PatchAcceptable(actor, id, body)) =>
            /\ PutAppointment(actor, id, body).code = 200
            /\ \A f \in DOMAIN appts[id] :
                  PutAppointmentStore(actor, id, body)[id][f] =
                      IF Has(body, f) THEN body[f] ELSE appts[id][f]

\* a stored appointment: the notes-only update is refused by the validator
\* for the doctor and for the owner alike and stores nothing, while the
\* doctor's update with all four required fields is accepted
C20_Witness ==
    \E id \in ApptIds, full \in FullBodies :
        /\ Stored(id)
        /\ PutAppointment("d1", id, [notes |-> "n1"]) = Reply(400, "validation")
        /\ PutAppointment(appts[id].user, id, [notes |-> "n1"])
              = Reply(400, "validation")
        /\ PutAppointmentStore("d1", id, [notes |-> "n1"]) = appts
        /\ PutAppointment("a1", id, [status |-> "completed"])
              = Reply(400, "validation")
        /\ PutAppointment("d1", id, full).code = 200

----------------------------------------------------------------------------
(* Properties of the appointment status, of refused requests and of the    *)
(* appointment's owner                                                     *)

\* C21 as stated: right after every successful create, by a patient or by a
\* staff actor and whatever the body carries, the stored status is scheduled;
\* and a stored status becomes completed or cancelled only in a step that
\* finds the appointment stored with status scheduled.
C21_StartsScheduled ==
    /\ [](\A actor \in Users, body \in ApptBodies :
            (PostAppointment(actor, body).code = 201 /\ nextAppt <= MaxAppts)
            => PostAppointmentStore(actor, body)[nextAppt].status = "scheduled")
    /\ [][\A id \in ApptIds :
            (/\ appts'[id] # NoDoc
             /\ appts'[id].status \in {"completed", "cancelled"}
             /\ appts[id] = NoDoc \/ appts[id].status # appts'[id].status)
            => (appts[id] # NoDoc /\ appts[id].status = "scheduled")]_vars

\* with the service active and an _id free, a create whose body carries the
\* status completed is accepted from the patient and from the doctor, and the
\* appointment it stores is completed from the start
C21_Witness ==
    /\ nextAppt <= MaxAppts
    /\ ServiceAvailable(1)
    /\ \E body \in FullBodies :
          /\ Has(body, "status") /\ body.status = "completed"
          /\ PostAppointment("p1", body).code = 201
          /\ PostAppointmentStore("p1", body)[nextAppt].status = "completed"
          /\ PostAppointmentStore("d1", body)[nextAppt].status = "completed"

\* the replies of a create or an update that report a failure
Failure(r) == r.code \in {400, 403, 404}

\* C22: a create or an update that ends in a failure (validation, reference,
\* schedule, Forbidden or NotFound) leaves the appointment collection exactly
\* as it was, and every reply is either the success or one of these failures.
C22_RefusedLeavesStore ==
    \A actor \in Users, body \in ApptBodies :
        /\ PostAppointment(actor, body).code = 201
              \/ Failure(PostAppointment(actor, body))
        /\ Failure(PostAppointment(actor, body)) =>
              PostAppointmentStore(actor, body) = appts
        /\ \A id \in ApptIds :
              /\ PutAppointment(actor, id, body).code = 200
                    \/ Failure(PutAppointment(actor, id, body))
              /\ Failure(PutAppointment(actor, id, body)) =>
                    PutAppointmentStore(actor, id, body) = appts

\* a stored appointment of p1 on service 1, the other service being stored
\* and inactive: an update is refused by the validator, by the ownership
\* check, by the status rule, by the service check and by the schedule check,
\* each time with the collection as it was, and so is a create on Thursday
C22_Witness ==
    \E id \in ApptIds :
        LET full == [user |-> "p1", doctor |-> "d1", service |-> 1,
                     date |-> SatOpen]
        IN
        /\ Stored(id) /\ appts[id].user = "p1" /\ appts[id].service = 1
        /\ appts[id].status = "scheduled"
        /\ services[1] # NoDoc /\ services[1].isActive
        /\ services[2] # NoDoc /\ ~services[2].isActive
        /\ PutAppointment("p1", id, [notes |-> "n1"]) = Reply(400, "validation")
        /\ PutAppointment("p2", id, full) = Reply(403, "owner")
        /\ PutAppointment("p1", id, [user |-> "p1", doctor |-> "d1",
              service |-> 1, date |-> SatOpen, status |-> "cancelled"])
              = Reply(403, "status")
        /\ PutAppointment("d1", id, [full EXCEPT !.service = 2])
              = Reply(400, "service")
        /\ PutAppointment("d1", id, [full EXCEPT !.date = ThuTen])
              = Reply(400, "day")
        /\ PostAppointment("d1", [full EXCEPT !.date = ThuTen])
              = Reply(400, "day")
        /\ PutAppointmentStore("d1", id, [full EXCEPT !.date = ThuTen]) = appts
        /\ PutAppointment("d1", id, full).code = 200

\* C23: with the load and the save of an update as separate steps, the
\* stored status of an appointment changes only in the save of an update
\* that a doctor or an assistant issued; the save of a patient's update
\* leaves the stored status as it was just before it.
C23_OnlyStaffSaveChangesStatus ==
    [][\A id \in ApptIds :
          (/\ appts[id] # NoDoc
           /\ appts'[id] # NoDoc
           /\ appts'[id].status # appts[id].status)
          => \E p \in Procs :
                /\ pending[p] # Idle
                /\ pending[p].kind = "put"
                /\ pending[p].id = id
                /\ Staff(pending[p].actor)
                /\ pending'[p] = Idle]_vars

\* the patient's update loaded the appointment as scheduled and has not saved
\* yet; the doctor's update has completed the appointment since.  The
\* patient's save, which carries the status it loaded, leaves it completed
C23_Witness ==
    \E p \in Procs :
        /\ pending[p] # Idle
        /\ pending[p].kind = "put"
        /\ Patient(pending[p].actor)
        /\ pending[p].loaded.status = "scheduled"
        /\ pending[p].body.status = "scheduled"
        /\ appts[pending[p].id].status = "completed"
        /\ SaveOver(appts[pending[p].id], pending[p].loaded,
                    pending[p].body).status = "completed"

\* the stored services that carry a name
Named(store, name) ==
    {sid \in ServiceIds : store[sid] # NoDoc /\ store[sid].name = name}

\* C24: a creation in flight, past its name check, and a second creation or a
\* rename in flight for the same name, past its name check too, both save:
\* whichever saves first, the collection then holds two services of that
\* name.
C24_BothPassBothSave ==
    \A p \in Procs, q \in Procs :
        (/\ p # q
         /\ pending[p] # Idle
         /\ pending[q] # Idle
         /\ pending[p].kind = "svcCreate"
         /\ \/ pending[q].kind = "svcCreate"
            \/ pending[q].kind = "svcEdit"
               /\ Renames(pending[q].body, pending[q].loaded)
               /\ services[pending[q].sid] # NoDoc
         /\ pending[q].body.name = pending[p].body.name)
        => LET name == pending[p].body.name
               pq == SvcSaved(SvcSaved(services, nextSvc, pending[p]),
                              SvcNext(nextSvc, pending[p]), pending[q])
               qp == SvcSaved(SvcSaved(services, nextSvc, pending[q]),
                              SvcNext(nextSvc, pending[q]), pending[p])
           IN /\ Cardinality(Named(pq, name)) >= 2
              /\ Cardinality(Named(qp, name)) >= 2

\* two stored services of one name, no request in flight
C24_Witness ==
    /\ \A p \in Procs : pending[p] = Idle
    /\ \E name \in Names : Cardinality(Named(services, name)) = 2

\* C25: an update that a patient issues and that succeeds leaves the
\* appointment owned by that patient.
C25_PatientKeepsOwner ==
    \A actor \in Users, id \in ApptIds, body \in ApptBodies :
        (Patient(actor) /\ PutAppointment(actor, id, body).code = 200)
        => PutAppointmentStore(actor, id, body)[id].user = actor

\* p1 owns the stored appointment and resends it with the doctor's id as
\* user: the update is accepted and the appointment is no longer p1's
C25_Witness ==
    \E id \in ApptIds, body \in FullBodies :
        /\ appts[id] # NoDoc
        /\ appts[id].user = "p1"
        /\ body.user = "d1"
        /\ PutAppointment("p1", id, body).code = 200
        /\ LET after == PutAppointmentStore("p1", id, body)[id] IN
           /\ after.user = "d1"
           /\ ~IsOwner(after, "p1")

\* C26: a user-profile update issued by an actor whose stored role is
\* patient leaves that actor's stored role patient.
C26_PatientStaysPatient ==
    \A actor \in Users, id \in UserIds, body \in UserBodies :
        (ReqUserRole(actor) = "patient" /\ PutUser(actor, id, body).code = 200)
        => PutUserStore(actor, id, body)[actor].role = "patient"

\* p1, a patient, has renamed itself and is still stored as a patient; it
\* may not update p2's profile.  Its next update of its own profile, with
\* role doctor, is accepted and p1 is stored as a doctor
C26_Witness ==
    LET body == [name |-> "Bob", email |-> "a@clinic", password |-> 6,
                 role |-> "doctor"]
    IN /\ users["p1"] = [name |-> "Bob", role |-> "patient"]
       /\ PutUser("p1", "p2", body) = Reply(403, "owner")
       /\ PutUser("p1", "p1", body).code = 200
       /\ PutUserStore("p1", "p1", body)["p1"].role = "doctor"

====
